---------------------------- MODULE Spec2Model ----------------------------
(***************************************************************************)
(* Lari Bot (src/app.py): the chat transcript kept in the session state,   *)
(* the dispatch of a user turn to the image or chat boundary, and the      *)
(* splitting of a model reply into text and code blocks.                   *)
(*                                                                         *)
(* A Python str is a sequence of one-character strings, so that lower(),   *)
(* startswith(), split(), strip() and join() are computed character by     *)
(* character.  A Python dict is a record whose DOMAIN is its key set; a    *)
(* key that the code does not set is absent from the record.               *)
(***************************************************************************)
EXTENDS Integers, Sequences, FiniteSets, TLC

(* ------------------------------ bounds -------------------------------- *)

\* number of user turns explored in one session
MaxTurns == 2

\* number of lines of a reply handed to detect_code_blocks
MaxLines == 4

(* ------------------------- Python str and dict ------------------------ *)

\* the backtick character; it is spelled out because a backtick inside a
\* string of a module opens a quotation for the lexer
BT == "BACKTICK"

\* the None of Python; a one-element sequence that is no string of characters,
\* so it differs from every str, the empty str included
None == <<"None">>

\* truth value of an Optional[str]: None and "" are falsy
Truthy(v) == v # None /\ v # <<>>

\* dict.get(key, default)
Get(d, key, default) == IF key \in DOMAIN d THEN d[key] ELSE default

UpperCase == <<"A", "B", "C", "D", "E", "F", "G", "H", "I", "J", "K", "L", "M", "N", "O", "P", "Q", "R", "S", "T", "U", "V", "W", "X", "Y", "Z">>

LowerCase == <<"a", "b", "c", "d", "e", "f", "g", "h", "i", "j", "k", "l", "m", "n", "o", "p", "q", "r", "s", "t", "u", "v", "w", "x", "y", "z">>

\* str.lower() on one character
LowerChar(c) ==
    IF \E i \in 1..26 : UpperCase[i] = c
    THEN LowerCase[CHOOSE i \in 1..26 : UpperCase[i] = c]
    ELSE c

\* str.lower()
Lower(s) == [i \in 1..Len(s) |-> LowerChar(s[i])]

\* str.startswith(prefix)
StartsWith(s, prefix) ==
    Len(s) >= Len(prefix) /\ SubSeq(s, 1, Len(prefix)) = prefix

\* str.startswith(tuple of prefixes)
StartsWithAny(s, prefixes) == \E p \in prefixes : StartsWith(s, p)

\* the characters str.strip() removes
Whitespace == {" ", "\t", "\n", "\r"}

\* s[k:], with k counted from 0 as in Python
SliceFrom(s, k) == SubSeq(s, k + 1, Len(s))

RECURSIVE LStrip(_)
LStrip(s) ==
    IF s # <<>> /\ Head(s) \in Whitespace THEN LStrip(Tail(s)) ELSE s

RECURSIVE RStrip(_)
RStrip(s) ==
    IF s # <<>> /\ s[Len(s)] \in Whitespace
    THEN RStrip(SubSeq(s, 1, Len(s) - 1))
    ELSE s

\* str.strip()
Strip(s) == RStrip(LStrip(s))

\* index of the first occurrence of character sep in s, 0 when there is none
RECURSIVE Find(_, _, _)
Find(s, sep, i) ==
    IF i > Len(s) THEN 0
    ELSE IF s[i] = sep THEN i
    ELSE Find(s, sep, i + 1)

\* str.split(sep, maxsplit) for a one-character sep; maxsplit = -1 is no limit
RECURSIVE Split(_, _, _)
Split(s, sep, maxsplit) ==
    LET i == Find(s, sep, 1)
    IN  IF maxsplit = 0 \/ i = 0 THEN <<s>>
        ELSE <<SubSeq(s, 1, i - 1)>>
             \o Split(SubSeq(s, i + 1, Len(s)), sep,
                      IF maxsplit > 0 THEN maxsplit - 1 ELSE maxsplit)

\* sep.join(parts)
RECURSIVE Join(_, _)
Join(sep, parts) ==
    IF parts = <<>> THEN <<>>
    ELSE IF Len(parts) = 1 THEN parts[1]
    ELSE parts[1] \o sep \o Join(sep, Tail(parts))

NL == <<"\n">>

Fence == <<BT, BT, BT>>

(* --------------------- Chatbot.detect_code_blocks --------------------- *)

\* detect_line with the text line stripped before it is stored
detect_line_strip_text(st, line) ==
    IF StartsWith(line, Fence)
    THEN IF st.in_code_block
         THEN [st EXCEPT !.blocks = Append(@, [type |-> "code",
                                               content |-> Join(NL, st.current_block),
                                               language |-> st.current_language]),
                         !.current_block = <<>>,
                         !.in_code_block = FALSE]
         ELSE [st EXCEPT !.current_language = Strip(SliceFrom(line, 3)),
                         !.in_code_block = TRUE]
    ELSE IF st.in_code_block
         THEN [st EXCEPT !.current_block = Append(@, line)]
         ELSE IF Strip(line) # <<>>
              THEN [st EXCEPT !.blocks = Append(@, [type |-> "text",
                                                    content |-> Strip(line)])]
              ELSE st

\* detect_line with the language tag taken as line[3:], without strip()
detect_line_raw_language(st, line) ==
    IF StartsWith(line, Fence)
    THEN IF st.in_code_block
         THEN [st EXCEPT !.blocks = Append(@, [type |-> "code",
                                               content |-> Join(NL, st.current_block),
                                               language |-> st.current_language]),
                         !.current_block = <<>>,
                         !.in_code_block = FALSE]
         ELSE [st EXCEPT !.current_language = SliceFrom(line, 3),
                         !.in_code_block = TRUE]
    ELSE IF st.in_code_block
         THEN [st EXCEPT !.current_block = Append(@, line)]
         ELSE IF Strip(line) # <<>>
              THEN [st EXCEPT !.blocks = Append(@, [type |-> "text",
                                                    content |-> line])]
              ELSE st

\* one iteration of the loop over the lines; st holds the locals of the loop
detect_line(st, line) ==
    IF StartsWith(line, Fence)
    THEN IF st.in_code_block
         THEN [st EXCEPT !.blocks = Append(@, [type |-> "code",
                                               content |-> Join(NL, st.current_block),
                                               language |-> st.current_language]),
                         !.current_block = <<>>,
                         !.in_code_block = FALSE]
         ELSE LET language == Strip(SliceFrom(line, 3))
              IN  [st EXCEPT !.current_language =
                                 IF language # <<>> THEN language ELSE <<>>,
                             !.in_code_block = TRUE]
    ELSE IF st.in_code_block
         THEN [st EXCEPT !.current_block = Append(@, line)]
         ELSE IF Strip(line) # <<>>
              THEN [st EXCEPT !.blocks = Append(@, [type |-> "text",
                                                    content |-> line])]
              ELSE st

RECURSIVE detect_loop(_, _)
detect_loop(st, lines) ==
    IF lines = <<>> THEN st
    ELSE detect_loop(detect_line(st, Head(lines)), Tail(lines))

\* the locals of detect_code_blocks when the loop has run over all of text
detect_final(text) ==
    detect_loop([blocks |-> <<>>, in_code_block |-> FALSE,
                 current_block |-> <<>>, current_language |-> <<>>],
                Split(text, "\n", -1))

\* detect_code_blocks with a block still open at the end of the text flushed
detect_code_blocks_flush(text) ==
    LET st == detect_final(text)
    IN  IF st.in_code_block
        THEN Append(st.blocks, [type |-> "code",
                                content |-> Join(NL, st.current_block),
                                language |-> st.current_language])
        ELSE st.blocks

detect_code_blocks(text) == detect_final(text).blocks

(* ---------------------------- ChatInterface --------------------------- *)

\* append_chat_message with the key set for every language that is not None
append_chat_message_not_none(msgs, role, content, msg_type, language) ==
    Append(msgs,
           IF language # None
           THEN [role |-> role, content |-> content, type |-> msg_type,
                 language |-> language]
           ELSE [role |-> role, content |-> content, type |-> msg_type])

\* ChatInterface.append_chat_message: the transcript with one more message;
\* the "language" key is set only for a truthy language
append_chat_message(msgs, role, content, msg_type, language) ==
    LET message == [role |-> role, content |-> content, type |-> msg_type]
    IN  Append(msgs,
               IF Truthy(language)
               THEN [role |-> role, content |-> content, type |-> msg_type,
                     language |-> language]
               ELSE message)

\* clear_conversation that removes the last message only
clear_conversation_pop(msgs) ==
    IF msgs = <<>> THEN <<>> ELSE SubSeq(msgs, 1, Len(msgs) - 1)

\* ChatInterface.clear_conversation: the transcript it leaves
clear_conversation(msgs) == <<>>

\* ChatInterface.get_messages
get_messages(msgs) == msgs

(* ------------------------------- Chatbot ------------------------------ *)

\* the four command prefixes tested by process_message
Prefixes == { <<"/", "i", "m", "a", "g", "e", "m">>,
              <<"/", "i", "m", "g">>,
              <<"/", "g", "e", "r", "a", "r", " ", "i", "m", "a", "g", "e", "m">>,
              <<"/", "c", "r", "i", "a", "r", " ", "i", "m", "a", "g", "e", "m">> }

\* the system message that opens every chat request; its text is never
\* inspected by the code and is kept as one unit
SystemMessage == [role |-> "system",
                  content |-> <<"Voce e um assistente prestativo e amigavel. [...]">>]

\* "Desculpe, ocorreu um erro: "
ErrorPrefix == <<"D", "e", "s", "c", "u", "l", "p", "e", ",", " ", "o", "c", "o", "r", "r", "e", "u", " ", "u", "m", " ", "e", "r", "r", "o", ":", " ">>

\* str(IndexError) of message.split(' ', 1)[1] on a message without a space
IndexErrorText == <<"l", "i", "s", "t", " ", "i", "n", "d", "e", "x", " ", "o", "u", "t", " ", "o", "f", " ", "r", "a", "n", "g", "e">>

\* outcomes of client.images.generate: a URL, or an exception
ImageOutcomes == { [ok |-> TRUE, url |-> <<"u", "r", "l">>],
                   [ok |-> FALSE, url |-> None] }

\* Chatbot.generate_image: the URL, or None when the boundary raised
generate_image(prompt, img) == IF img.ok THEN img.url ELSE None

\* history[-n:]
LastN(history, n) ==
    SubSeq(history, IF Len(history) > n THEN Len(history) - n + 1 ELSE 1,
           Len(history))

\* the messages list process_message builds for the chat boundary
chat_request(message, history) ==
    LET recent == SelectSeq(LastN(history, 5),
                            LAMBDA msg : msg.type \in {"text", "code"})
    IN  <<SystemMessage>>
        \o [i \in 1..Len(recent) |-> [role |-> recent[i].role,
                                      content |-> recent[i].content]]
        \o <<[role |-> "user", content |-> message]>>

\* result of the try body or of the whole of process_message: what it
\* returns or raises, and the boundary calls it made on the way
Return(responses, imageCalls, chatCalls) ==
    [raised |-> FALSE, error |-> <<>>, responses |-> responses,
     imageCalls |-> imageCalls, chatCalls |-> chatCalls]

Raise(error, imageCalls, chatCalls) ==
    [raised |-> TRUE, error |-> error, responses |-> <<>>,
     imageCalls |-> imageCalls, chatCalls |-> chatCalls]

\* process_message from "Prepara o historico" to the return of the blocks
chat_path(message, history, chat, imageCalls) ==
    LET messages == chat_request(message, history)
    IN  IF chat.ok
        THEN LET blocks == detect_code_blocks(chat.content)
             IN  Return([i \in 1..Len(blocks) |->
                           [tipo |-> blocks[i].type,
                            conteudo |-> blocks[i].content,
                            linguagem |-> IF blocks[i].type = "code"
                                          THEN Get(blocks[i], "language", <<>>)
                                          ELSE None]],
                        imageCalls, <<messages>>)
        ELSE Raise(chat.error, imageCalls, <<messages>>)

\* the body of the try statement of process_message
process_body(message, history, img, chat) ==
    IF StartsWithAny(Lower(message), Prefixes)
    THEN LET parts == Split(message, " ", 1)
         IN  IF Len(parts) < 2
             THEN Raise(IndexErrorText, <<>>, <<>>)
             ELSE LET image_prompt == parts[2]
                      image_url == generate_image(image_prompt, img)
                  IN  IF Truthy(image_url)
                      THEN Return(<<[tipo |-> "imagem", conteudo |-> image_url]>>,
                                  <<image_prompt>>, <<>>)
                      ELSE chat_path(message, history, chat, <<image_prompt>>)
    ELSE chat_path(message, history, chat, <<>>)

\* process_message without the except clause
process_message_no_except(message, history, img, chat) ==
    process_body(message, history, img, chat)

\* Chatbot.process_message: the try body under "except Exception"
process_message(message, history, img, chat) ==
    LET body == process_body(message, history, img, chat)
    IN  IF body.raised
        THEN Return(<<[tipo |-> "texto",
                       conteudo |-> ErrorPrefix \o body.error]>>,
                    body.imageCalls, body.chatCalls)
        ELSE body

(* -------------------------------- main -------------------------------- *)

\* the loop of main over the responses: one appended message per response
RECURSIVE append_responses(_, _)
append_responses(msgs, responses) ==
    IF responses = <<>> THEN msgs
    ELSE LET response == Head(responses)
             next == IF response.tipo = "imagem"
                     THEN append_chat_message(msgs, "assistant",
                                              response.conteudo, "image", None)
                     ELSE IF response.tipo = "code"
                     THEN append_chat_message(msgs, "assistant",
                                              response.conteudo, "code",
                                              Get(response, "linguagem", None))
                     ELSE append_chat_message(msgs, "assistant",
                                              response.conteudo, "text", None)
         IN  append_responses(next, Tail(responses))

(* ------------------------------ inputs -------------------------------- *)

\* user inputs typed into st.chat_input
Prompts == { <<"h", "i">>,
             <<"/", "i", "m", "g", " ", "a">>,
             <<"/", "I", "m", "g", " ", "a">>,
             <<"/", "i", "m", "a", "g", "e", "m", " ", "a", " ", "b">>,
             <<"/", "g", "e", "r", "a", "r", " ", "i", "m", "a", "g", "e", "m", " ", "a">>,
             <<"/", "c", "r", "i", "a", "r", " ", "i", "m", "a", "g", "e", "m", " ", "a">>,
             <<"/", "i", "m", "g">>,
             <<"/", "i", "m", "g", "x", " ", "a">> }

\* reply texts of the chat boundary
Replies == { <<"o", "k">>,
             <<>>,
             <<"t", "\n", BT, BT, BT, "\n", "u">>,
             <<"a", "\n", "\n", BT, BT, BT, "p", "y", "\n", "x", "\n", "y", "\n", BT, BT, BT, "\n", "b", "\n", BT, BT, BT, "\n", BT, BT, BT, "\n", "c">> }

\* outcomes of client.chat.completions.create: a reply, or an exception
ChatOutcomes ==
    { [ok |-> TRUE, content |-> r, error |-> <<>>] : r \in Replies }
    \cup { [ok |-> FALSE, content |-> <<>>, error |-> <<"t", "i", "m", "e", "o", "u", "t">>] }

\* lines a reply is made of
LineSet == { <<>>,
             <<" ", "\t">>,
             <<"a">>,
             <<"b", " ", "c">>,
             <<BT, BT, BT>>,
             <<BT, BT, BT, "p", "y">>,
             <<BT, BT, BT, " ", "p", "y", " ">>,
             <<" ", BT, BT, BT>>,
             <<BT, BT>> }

(* ------------------------------- state -------------------------------- *)

VARIABLES
    messages,   \* st.session_state.messages
    turns,      \* number of user turns so far
    lastOp,     \* the handler that ran last: "none", "turn" or "clear"
    prompt,     \* the user input of the last turn
    prev,       \* the transcript when the last handler started
    result,     \* what process_message returned in the last turn
    imgOut,     \* the outcome of the image boundary offered in the last turn
    chatOut,    \* the outcome of the chat boundary offered in the last turn
    text,       \* the reply text handed to detect_code_blocks
    srcLines,   \* the lines text was assembled from
    blocks,     \* the blocks detect_code_blocks returned
    segPc       \* "input" while text is assembled, "done" after the call

sessionVars == <<messages, turns, lastOp, prompt, prev, result, imgOut, chatOut>>

segVars == <<text, srcLines, blocks, segPc>>

vars == <<messages, turns, lastOp, prompt, prev, result, imgOut, chatOut,
          text, srcLines, blocks, segPc>>

\* values of chatOut and imgOut while no turn has offered an outcome
NoOutcome == [ok |-> FALSE, content |-> <<>>, error |-> <<>>]

NoImage == [ok |-> FALSE, url |-> None]

SessionInit ==
    /\ messages = <<>>
    /\ turns = 0
    /\ lastOp = "none"
    /\ prompt = <<>>
    /\ prev = <<>>
    /\ result = Return(<<>>, <<>>, <<>>)
    /\ imgOut = NoImage
    /\ chatOut = NoOutcome

SegInit ==
    /\ srcLines = <<>>
    /\ text = <<>>
    /\ blocks = <<>>
    /\ segPc = "input"

(* ------------------------- the chat session --------------------------- *)

Init == SessionInit /\ SegInit

\* main on a rerun with an input in st.chat_input
Turn(p, img, chat) ==
    /\ turns < MaxTurns
    /\ LET withUser == append_chat_message(messages, "user", p, "text", None)
           historico == get_messages(withUser)
           r == process_message(p, historico, img, chat)
       IN  /\ messages' = IF r.raised THEN withUser
                          ELSE append_responses(withUser, r.responses)
           /\ result' = r
    /\ turns' = turns + 1
    /\ lastOp' = "turn"
    /\ prompt' = p
    /\ prev' = messages
    /\ imgOut' = img
    /\ chatOut' = chat
    /\ UNCHANGED segVars

\* main on a rerun with the "Limpar Conversa" button pressed; the record of
\* the last turn is forgotten
Clear ==
    /\ messages' = clear_conversation(messages)
    /\ lastOp' = "clear"
    /\ prev' = messages
    /\ prompt' = <<>>
    /\ result' = Return(<<>>, <<>>, <<>>)
    /\ imgOut' = NoImage
    /\ chatOut' = NoOutcome
    /\ UNCHANGED turns
    /\ UNCHANGED segVars

Next ==
    \/ \E p \in Prompts, img \in ImageOutcomes, chat \in ChatOutcomes :
           Turn(p, img, chat)
    \/ Clear

Spec == Init /\ [][Next]_vars

(* --------------------- the segmenter on its own ----------------------- *)

\* a reply of one line
InitSeg ==
    /\ SessionInit
    /\ srcLines \in {<<l>> : l \in LineSet}
    /\ text = srcLines[1]
    /\ blocks = <<>>
    /\ segPc = "input"

\* the reply grows by one line
AddLine(l) ==
    /\ segPc = "input"
    /\ Len(srcLines) < MaxLines
    /\ srcLines' = Append(srcLines, l)
    /\ text' = text \o NL \o l
    /\ UNCHANGED <<blocks, segPc>>
    /\ UNCHANGED sessionVars

\* blocks = self.detect_code_blocks(text)
Segment ==
    /\ segPc = "input"
    /\ blocks' = detect_code_blocks(text)
    /\ segPc' = "done"
    /\ UNCHANGED <<text, srcLines>>
    /\ UNCHANGED sessionVars

NextSeg ==
    \/ \E l \in LineSet : AddLine(l)
    \/ Segment

SpecSeg == InitSeg /\ [][NextSeg]_vars

(* ------------------- vocabulary of the properties --------------------- *)

\* p is one of the four command prefixes, in any letter case, then a space,
\* then the image prompt
IsDirectiveForm(p) ==
    \E pre \in Prefixes :
        /\ Len(p) > Len(pre)
        /\ Lower(SubSeq(p, 1, Len(pre))) = pre
        /\ p[Len(pre) + 1] = " "

\* the image prompt P of an input of that form
DirectivePrompt(p) ==
    LET pre == CHOOSE q \in Prefixes :
                   /\ Len(p) > Len(q)
                   /\ Lower(SubSeq(p, 1, Len(q))) = q
                   /\ p[Len(q) + 1] = " "
    IN  SubSeq(p, Len(pre) + 2, Len(p))

UserMessage(p) == [role |-> "user", content |-> p, type |-> "text"]

\* the last turn was a turn and it called the chat boundary
ChatCalled == lastOp = "turn" /\ result.chatCalls # <<>>

\* the last turn was a turn and it called the image boundary
ImageCalled == lastOp = "turn" /\ result.imageCalls # <<>>

\* the text and code messages of a transcript, as role and content pairs
TextCodePairs(msgs) ==
    LET kept == SelectSeq(msgs, LAMBDA m : m.type \in {"text", "code"})
    IN  [i \in 1..Len(kept) |-> [role |-> kept[i].role,
                                 content |-> kept[i].content]]

IsFenceLine(l) == Len(l) >= 3 /\ l[1] = BT /\ l[2] = BT /\ l[3] = BT

IsBlankLine(l) == \A i \in 1..Len(l) : l[i] \in Whitespace

FenceIdx(ls) == {i \in 1..Len(ls) : IsFenceLine(ls[i])}

FencesBefore(ls, i) == Cardinality({j \in FenceIdx(ls) : j < i})

\* line i closes a fence
Closes(ls, i) == i \in FenceIdx(ls) /\ FencesBefore(ls, i) % 2 = 1

\* line i is outside every fence and is no marker
Outside(ls, i) == i \notin FenceIdx(ls) /\ FencesBefore(ls, i) % 2 = 0

\* the marker line that opened the fence line i closes
Opener(ls, i) == CHOOSE j \in FenceIdx(ls) :
                     j < i /\ \A k \in FenceIdx(ls) : k < i => k <= j

\* s without the whitespace at its two ends, by position
Trimmed(s) ==
    LET solid == {i \in 1..Len(s) : s[i] \notin Whitespace}
    IN  IF solid = {} THEN <<>>
        ELSE SubSeq(s, CHOOSE i \in solid : \A j \in solid : i <= j,
                       CHOOSE i \in solid : \A j \in solid : j <= i)

\* lines a..b of ls with a newline between two neighbours
RECURSIVE Enclosed(_, _, _)
Enclosed(ls, a, b) ==
    IF a > b THEN <<>>
    ELSE IF a = b THEN ls[a]
    ELSE Enclosed(ls, a, b - 1) \o <<"\n">> \o ls[b]

\* the segment line i gives rise to
SegmentAt(ls, i) ==
    IF Closes(ls, i)
    THEN [type |-> "code",
          content |-> Enclosed(ls, Opener(ls, i) + 1, i - 1),
          language |-> Trimmed(SubSeq(ls[Opener(ls, i)], 4,
                                      Len(ls[Opener(ls, i)])))]
    ELSE [type |-> "text", content |-> ls[i]]

\* one text segment per non-blank line outside a fence and one code segment
\* per closed fence, in the order of the lines
RECURSIVE ExpectedFrom(_, _)
ExpectedFrom(ls, i) ==
    IF i > Len(ls) THEN <<>>
    ELSE (IF Closes(ls, i) \/ (Outside(ls, i) /\ ~IsBlankLine(ls[i]))
          THEN <<SegmentAt(ls, i)>> ELSE <<>>)
         \o ExpectedFrom(ls, i + 1)

Expected(ls) == ExpectedFrom(ls, 1)

Balanced(ls) == Cardinality(FenceIdx(ls)) % 2 = 0

\* the lines of the content fields of segs, concatenated in order
ContentLines(segs) ==
    IF segs = <<>> THEN <<>>
    ELSE Split(Join(NL, [i \in 1..Len(segs) |-> segs[i].content]), "\n", -1)

NonBlank(ls) == SelectSeq(ls, LAMBDA l : ~IsBlankLine(l))

NonMarker(ls) == SelectSeq(ls, LAMBDA l : ~IsFenceLine(l))

(* ------------------------------ claims -------------------------------- *)

\* C1: in a turn whose chat-completion call raises, process_message raises
\* nothing and returns exactly one segment, a text segment whose content
\* starts with the error prefix, and the transcript gains the user message
\* of the turn followed by exactly one assistant message, that text.
C1_ChatFailureOneErrorText ==
    (ChatCalled /\ ~chatOut.ok) =>
        /\ ~result.raised
        /\ Len(result.responses) = 1
        /\ result.responses[1].tipo = "texto"
        /\ StartsWith(result.responses[1].conteudo, ErrorPrefix)
        /\ messages = prev \o <<UserMessage(prompt),
                                [role |-> "assistant",
                                 content |-> result.responses[1].conteudo,
                                 type |-> "text"]>>

C1_Witness ==
    /\ ChatCalled /\ ~chatOut.ok
    /\ Len(prev) >= 2
    /\ Len(messages) = Len(prev) + 2

\* C2: in a turn whose input is an image directive and whose image call
\* fails, process_message returns no segment and the transcript gains no
\* assistant message.
C2_ImageFailureNoOutput ==
    (ImageCalled /\ ~imgOut.ok) =>
        /\ result.responses = <<>>
        /\ messages = prev \o <<UserMessage(prompt)>>

\* C3: in a non-image turn the list sent to the chat boundary is the system
\* instruction, then the last 5 text or code messages the transcript held
\* before the user message of the turn, then the user message once.
C3_ContextWindow ==
    (ChatCalled /\ result.imageCalls = <<>>) =>
        result.chatCalls[1] =
            <<SystemMessage>> \o LastN(TextCodePairs(prev), 5)
            \o <<[role |-> "user", content |-> prompt]>>

\* C4: for an input made of a command prefix, a space and a prompt P, the
\* image boundary is called with exactly P, the chat boundary is not called,
\* and when the image call succeeds exactly one segment is returned, an
\* image segment holding the returned reference.
C4_DirectiveDispatch ==
    (lastOp = "turn" /\ IsDirectiveForm(prompt)) =>
        /\ result.imageCalls = <<DirectivePrompt(prompt)>>
        /\ result.chatCalls = <<>>
        /\ imgOut.ok =>
               result.responses = <<[tipo |-> "imagem",
                                     conteudo |-> imgOut.url]>>

\* C5 as stated: every message of the transcript has a language field if
\* and only if its type is code.
C5_LanguageIffCode ==
    \A i \in 1..Len(messages) :
        ("language" \in DOMAIN messages[i]) <=> (messages[i].type = "code")

\* C5 as amended: a message with a language field is a code message with a
\* non-empty language, and a message appended for a returned segment has
\* the field exactly when the segment is code with a non-empty language.
C5_LanguageOnlyOnTaggedCode ==
    /\ \A i \in 1..Len(messages) :
           ("language" \in DOMAIN messages[i]) =>
               messages[i].type = "code" /\ messages[i].language # <<>>
    /\ lastOp = "turn" =>
           /\ Len(messages) = Len(prev) + 1 + Len(result.responses)
           /\ \A k \in 1..Len(result.responses) :
                  LET m == messages[Len(prev) + 1 + k]
                      r == result.responses[k]
                  IN  IF r.tipo = "code" /\ r.linguagem # <<>>
                      THEN "language" \in DOMAIN m /\ m.language = r.linguagem
                      ELSE "language" \notin DOMAIN m

C5_Witness ==
    /\ lastOp = "turn"
    /\ \E i, j \in 1..Len(messages) :
           /\ messages[i].type = "code" /\ "language" \in DOMAIN messages[i]
           /\ messages[j].type = "code" /\ "language" \notin DOMAIN messages[j]

\* C6 as stated: for a reply with balanced fence markers, the content
\* fields of the segments, concatenated in order, are the non-blank lines
\* of the reply in order.
C6_RoundTrip ==
    (segPc = "done" /\ Balanced(srcLines)) =>
        NonBlank(ContentLines(blocks)) = NonBlank(srcLines)

\* C6 as amended: for a reply with balanced fence markers, the content
\* fields of the segments, concatenated in order, are the non-blank lines
\* of the reply other than the fence marker lines, in order.
C6_RoundTripWithoutMarkers ==
    (segPc = "done" /\ Balanced(srcLines)) =>
        NonBlank(ContentLines(blocks)) = NonBlank(NonMarker(srcLines))

C6_Witness ==
    /\ segPc = "done" /\ Balanced(srcLines)
    /\ FenceIdx(srcLines) # {}
    /\ \E i \in 1..Len(blocks) : blocks[i].type = "text"
    /\ \E i \in 1..Len(blocks) : blocks[i].type = "code" /\ blocks[i].content # <<>>

\* C7: the segments are, in the order of the lines, one text segment per
\* non-blank line outside a fence, holding that line alone, and one code
\* segment per closed fence, whose language is the trimmed text after the
\* opening marker and whose content is the enclosed lines joined by newline.
C7_SegmentsFollowLines ==
    segPc = "done" => blocks = Expected(srcLines)

C7_Witness ==
    /\ segPc = "done"
    /\ Len(srcLines) = 4
    /\ blocks = <<[type |-> "code",
                   content |-> <<"a", "\n", "b", " ", "c">>,
                   language |-> <<"p", "y">>]>>

C9_AppendOnlyOrClear ==
    [][ /\ \/ messages' = messages
           \/ /\ Len(messages') > Len(messages)
              /\ SubSeq(messages', 1, Len(messages)) = messages
           \/ messages' = <<>>
        /\ lastOp' = "clear" => get_messages(messages') = <<>> ]_vars

C9_Witness ==
    /\ lastOp = "clear"
    /\ Len(prev) > 5
    /\ get_messages(messages) = <<>>

\* C10: an input that is not a command prefix followed by a space and a
\* prompt is a normal chat message: the image boundary is not called and
\* the input is sent to the chat boundary.
C10_OtherInputIsChat ==
    (lastOp = "turn" /\ ~IsDirectiveForm(prompt)) =>
        /\ result.imageCalls = <<>>
        /\ Len(result.chatCalls) = 1
        /\ result.chatCalls[1][Len(result.chatCalls[1])] =
               [role |-> "user", content |-> prompt]

=============================================================================
